---------------------------- MODULE Spec2Model ----------------------------
(***************************************************************************)
(* dorable-3dprinter-api: the contracts of IPrinterCamera, IAMS, IAMSHub,  *)
(* IFilamentTray and IPrinter.gcode / start_print as state machines.  The  *)
(* package declares abstract                                               *)
(* methods only; what each operation does is what its declaration and      *)
(* docstring state, and that is what each action below is translated from. *)
(* Where a docstring leaves an effect open (process_trays) the action      *)
(* takes every outcome the docstring allows.                               *)
(***************************************************************************)
EXTENDS Integers, Sequences, FiniteSets, TLC

VARIABLES worker, loops, last_frame, filament_trays, humidity, temperature,
          sent, event, ams_hub, tray, job

vars == <<worker, loops, last_frame, filament_trays, humidity, temperature,
          sent, event, ams_hub, tray, job>>

cameraVars == <<worker, loops, last_frame>>
amsVars == <<filament_trays, humidity, temperature>>

(***************************************************************************)
(* Bounds of the model.                                                    *)
(***************************************************************************)
MaxFrameLen == 3
MaxTrayIndex == 1
MaxRecords == 1
MaxCommands == 2
MaxSent == 3
MaxAmsId == 1

(***************************************************************************)
(* Python values: None, a returned value, a raised exception.              *)
(***************************************************************************)
None == [tag |-> "None"]
Return(v) == [tag |-> "return", val |-> v]
Raise(e) == [tag |-> "raise", exc |-> e]
NoArgs == <<>>
\* The last call made: its name, arguments, the state it was made in and its
\* outcome.
Call(op, args, pre, ret) == [op |-> op, args |-> args, pre |-> pre, ret |-> ret]

(***************************************************************************)
(* Camera frames: raw image bytes.                                         *)
(***************************************************************************)
SampleBytes == {0, 77, 255}
Frames == UNION {[1..n -> SampleBytes] : n \in 1..MaxFrameLen}
Bytes(f) == [tag |-> "bytes", data |-> f]

(***************************************************************************)
(* base64.b64encode(...).decode(): three bytes become four characters of   *)
(* the alphabet, a short last group is padded with "=".                    *)
(***************************************************************************)
B64Alphabet ==
  << "A","B","C","D","E","F","G","H","I","J","K","L","M",
     "N","O","P","Q","R","S","T","U","V","W","X","Y","Z",
     "a","b","c","d","e","f","g","h","i","j","k","l","m",
     "n","o","p","q","r","s","t","u","v","w","x","y","z",
     "0","1","2","3","4","5","6","7","8","9","+","/" >>

B64Char(i) == B64Alphabet[i + 1]

RECURSIVE b64encode(_)
b64encode(bs) ==
  IF Len(bs) = 0 THEN <<>>
  ELSE IF Len(bs) = 1 THEN
    LET n == bs[1] * 65536
    IN  << B64Char(n \div 262144), B64Char((n \div 4096) % 64), "=", "=" >>
  ELSE IF Len(bs) = 2 THEN
    LET n == bs[1] * 65536 + bs[2] * 256
    IN  << B64Char(n \div 262144), B64Char((n \div 4096) % 64),
           B64Char((n \div 64) % 64), "=" >>
  ELSE
    LET n == bs[1] * 65536 + bs[2] * 256 + bs[3]
    IN  << B64Char(n \div 262144), B64Char((n \div 4096) % 64),
           B64Char((n \div 64) % 64), B64Char(n % 64) >>
        \o b64encode(SubSeq(bs, 4, Len(bs)))

(***************************************************************************)
(* IPrinterCamera.  worker is the streaming/worker thread as is_alive sees *)
(* it, loops the number of capture loops executing, last_frame the last    *)
(* raw frame received (None before the first).                             *)
(***************************************************************************)
CameraState == [worker |-> worker, loops |-> loops, last_frame |-> last_frame]

is_alive_value == worker = "Running"

start_spawns_again ==
  /\ worker' = "Running"
  /\ loops' = loops + 1
  /\ UNCHANGED <<last_frame, amsVars, sent, ams_hub, tray, job>>
  /\ event' = Call("start", NoArgs, CameraState, Return(TRUE))

start ==
  IF is_alive_value
  THEN /\ UNCHANGED <<cameraVars, amsVars, sent, ams_hub, tray, job>>
       /\ event' = Call("start", NoArgs, CameraState, Return(FALSE))
  ELSE /\ worker' = "Running"
       /\ loops' = loops + 1
       /\ UNCHANGED <<last_frame, amsVars, sent, ams_hub, tray, job>>
       /\ event' = Call("start", NoArgs, CameraState, Return(TRUE))

stop_keeps_loop ==
  /\ worker' = IF worker = "Running" THEN "Stopped" ELSE worker
  /\ UNCHANGED <<loops, last_frame, amsVars, sent, ams_hub, tray, job>>
  /\ event' = Call("stop", NoArgs, CameraState, Return(None))

stop ==
  /\ worker' = IF worker = "Running" THEN "Stopped" ELSE worker
  /\ loops' = 0
  /\ UNCHANGED <<last_frame, amsVars, sent, ams_hub, tray, job>>
  /\ event' = Call("stop", NoArgs, CameraState, Return(None))

\* One iteration of the worker: a frame is received and stored.
capture(f) ==
  /\ loops > 0
  /\ last_frame' = Bytes(f)
  /\ UNCHANGED <<worker, loops, amsVars, sent, ams_hub, tray, job>>
  /\ event' = Call("capture", <<f>>, CameraState, Return(None))

get_last_frame ==
  /\ UNCHANGED <<cameraVars, amsVars, sent, ams_hub, tray, job>>
  /\ event' = Call("last_frame", NoArgs, CameraState, Return(last_frame))

is_alive ==
  /\ UNCHANGED <<cameraVars, amsVars, sent, ams_hub, tray, job>>
  /\ event' = Call("is_alive", NoArgs, CameraState, Return(is_alive_value))

base64_of_nothing ==
  /\ UNCHANGED <<cameraVars, amsVars, sent, ams_hub, tray, job>>
  /\ event' = Call("get_frame_as_base64", NoArgs, CameraState,
                   IF last_frame = None
                   THEN Return(b64encode(<<>>))
                   ELSE Return(b64encode(last_frame.data)))

get_frame_as_base64 ==
  /\ UNCHANGED <<cameraVars, amsVars, sent, ams_hub, tray, job>>
  /\ event' = Call("get_frame_as_base64", NoArgs, CameraState,
                   IF last_frame = None
                   THEN Raise("Exception")
                   ELSE Return(b64encode(last_frame.data)))

CameraNext ==
  \/ start
  \/ stop
  \/ \E f \in Frames : capture(f)
  \/ get_last_frame
  \/ is_alive
  \/ get_frame_as_base64

(***************************************************************************)
(* IFilamentTray: the fields of the constructor signature.                 *)
(***************************************************************************)
BaseTray ==
  [k |-> 2, n |-> 1, tag_uid |-> "0000000000000000", tray_id_name |-> "A00-K0",
   tray_info_idx |-> "GFA00", tray_type |-> "PLA", tray_sub_brands |-> "PLA Basic",
   tray_color |-> "red", tray_weight |-> "1000", tray_diameter |-> "1.75",
   tray_temp |-> "55", tray_time |-> "8", bed_temp_type |-> "1", bed_temp |-> "35",
   nozzle_temp_max |-> 230, nozzle_temp_min |-> 190, xcam_info |-> "8813",
   tray_uuid |-> "00000000000000000000000000000000"]

TrayFields == DOMAIN BaseTray

\* Raw tray data dictionaries: the tray fields and a key no tray declares.
RawTray(color, type) ==
  [f \in TrayFields \cup {"remain"} |->
     IF f = "remain" THEN 80
     ELSE IF f = "tray_color" THEN color
     ELSE IF f = "tray_type" THEN type
     ELSE BaseTray[f]]

RawTrays == {RawTray("red", "PLA"), RawTray("blue", "PLA"), RawTray("red", "PETG")}

\* The tray a raw dictionary describes: the constructor's parameters.
FilamentTray(d) == [f \in TrayFields |-> d[f]]

Trays == {FilamentTray(d) : d \in RawTrays}

(***************************************************************************)
(* IAMS.  filament_trays is the Dict[int, IFilamentTray]: a function whose *)
(* domain is the set of indices that hold a tray.                          *)
(***************************************************************************)
TrayIndices == 0..MaxTrayIndex

AMSState == filament_trays

Put(d, key, v) == [x \in DOMAIN d \cup {key} |-> IF x = key THEN v ELSE d[x]]

set_if_absent(filament_tray, tray_index) ==
  /\ filament_trays' = IF tray_index \in DOMAIN filament_trays
                       THEN filament_trays
                       ELSE Put(filament_trays, tray_index, filament_tray)
  /\ UNCHANGED <<humidity, temperature, cameraVars, sent, ams_hub, tray, job>>
  /\ event' = Call("set_filament_tray", <<filament_tray, tray_index>>, AMSState,
                   Return(None))

set_and_drop_others(filament_tray, tray_index) ==
  /\ filament_trays' = [x \in {tray_index} |-> filament_tray]
  /\ UNCHANGED <<humidity, temperature, cameraVars, sent, ams_hub, tray, job>>
  /\ event' = Call("set_filament_tray", <<filament_tray, tray_index>>, AMSState,
                   Return(None))

set_filament_tray(filament_tray, tray_index) ==
  /\ filament_trays' = Put(filament_trays, tray_index, filament_tray)
  /\ UNCHANGED <<humidity, temperature, cameraVars, sent, ams_hub, tray, job>>
  /\ event' = Call("set_filament_tray", <<filament_tray, tray_index>>, AMSState,
                   Return(None))

setitem(index, filament_tray) ==
  /\ filament_trays' = Put(filament_trays, index, filament_tray)
  /\ UNCHANGED <<humidity, temperature, cameraVars, sent, ams_hub, tray, job>>
  /\ event' = Call("__setitem__", <<index, filament_tray>>, AMSState, Return(None))

get_strict(d, tray_index) ==
  IF tray_index \in DOMAIN d THEN Return(d[tray_index]) ELSE Raise("KeyError")

\* The outcome of get_filament_tray(tray_index) on the tray dictionary d.
get_filament_tray_result(d, tray_index) ==
  IF tray_index \in DOMAIN d THEN Return(d[tray_index]) ELSE Return(None)

get_filament_tray(tray_index) ==
  /\ UNCHANGED <<amsVars, cameraVars, sent, ams_hub, tray, job>>
  /\ event' = Call("get_filament_tray", <<tray_index>>, AMSState,
                   get_filament_tray_result(filament_trays, tray_index))

\* The outcome of ams[index] on the tray dictionary d.
getitem_result(d, index) ==
  IF index \in DOMAIN d THEN Return(d[index]) ELSE Raise("KeyError")

getitem(index) ==
  /\ UNCHANGED <<amsVars, cameraVars, sent, ams_hub, tray, job>>
  /\ event' = Call("__getitem__", <<index>>, AMSState,
                   getitem_result(filament_trays, index))

\* process_trays populates filament_trays from the list: every dictionary of
\* the list becomes a tray under an index of its own.  The docstring fixes
\* neither the index a dictionary is filed under (its position, or an id it
\* carries) nor whether trays that were there before stay, so every such
\* outcome is taken.
RawTrayLists == UNION {[1..n -> RawTrays] : n \in 0..MaxRecords}

IndexAssignments(n) ==
  {a \in [1..n -> TrayIndices] : \A x, y \in 1..n : a[x] = a[y] => x = y}

process_trays(trays) ==
  /\ \E a \in IndexAssignments(Len(trays)), keep \in BOOLEAN :
       LET new == {a[x] : x \in 1..Len(trays)}
           old == IF keep THEN DOMAIN filament_trays ELSE {}
       IN  filament_trays' =
             [i \in new \cup old |->
                IF i \in new
                THEN FilamentTray(trays[CHOOSE x \in 1..Len(trays) : a[x] = i])
                ELSE filament_trays[i]]
  /\ UNCHANGED <<humidity, temperature, cameraVars, sent, ams_hub, tray, job>>
  /\ event' = Call("process_trays", <<trays>>, AMSState, Return(None))

AMSNext ==
  \/ \E t \in Trays, i \in TrayIndices : set_filament_tray(t, i)
  \/ \E t \in Trays, i \in TrayIndices : setitem(i, t)
  \/ \E i \in TrayIndices : get_filament_tray(i)
  \/ \E i \in TrayIndices : getitem(i)
  \/ \E l \in RawTrayLists : process_trays(l)

(***************************************************************************)
(* One IFilamentTray object.  tray holds its dataclass fields; the         *)
(* dataclass is not frozen, so from_dict and attribute assignment change   *)
(* them.  filament is a property: its getter runs at every access.         *)
(***************************************************************************)
AMSFilamentSettings(tray_info_idx, nozzle_temp_min, nozzle_temp_max, tray_type) ==
  [tray_info_idx |-> tray_info_idx, nozzle_temp_min |-> nozzle_temp_min,
   nozzle_temp_max |-> nozzle_temp_max, tray_type |-> tray_type]

\* Dictionaries that hold every tray field.
TrayDicts ==
  { [BaseTray EXCEPT !.tray_info_idx = idx, !.tray_type = ty,
                     !.nozzle_temp_min = lo, !.nozzle_temp_max = hi] :
    idx \in {"GFA00", "GFG99"}, ty \in {"PLA", "PETG"},
    lo \in {190, 220}, hi \in {230, 250} }

filament_cached(t) ==
  AMSFilamentSettings(BaseTray.tray_info_idx, BaseTray.nozzle_temp_min,
                      BaseTray.nozzle_temp_max, BaseTray.tray_type)

\* The filament information of the tray information t.
filament_of(t) ==
  AMSFilamentSettings(t.tray_info_idx, t.nozzle_temp_min, t.nozzle_temp_max,
                      t.tray_type)

from_dict(d) ==
  /\ tray' = FilamentTray(d)
  /\ UNCHANGED <<cameraVars, amsVars, sent, ams_hub, job>>
  /\ event' = Call("from_dict", <<d>>, tray, Return(None))

\* tray.<name> = value on the dataclass instance.
setattr(name, value) ==
  /\ tray' = [tray EXCEPT ![name] = value]
  /\ UNCHANGED <<cameraVars, amsVars, sent, ams_hub, job>>
  /\ event' = Call("__setattr__", <<name, value>>, tray, Return(None))

filament ==
  /\ UNCHANGED <<tray, cameraVars, amsVars, sent, ams_hub, job>>
  /\ event' = Call("filament", NoArgs, tray, Return(filament_of(tray)))

TrayNext ==
  \/ \E d \in TrayDicts : from_dict(d)
  \/ \E name \in {"nozzle_temp_min", "nozzle_temp_max"}, v \in {190, 230, 250} :
       setattr(name, v)
  \/ filament

(***************************************************************************)
(* IAMSHub.  ams_hub is the Dict[int, IAMS]: a function whose domain is    *)
(* the set of ids that hold an AMS unit.                                   *)
(***************************************************************************)
AmsIds == 0..MaxAmsId

\* An AMS unit as a value: its humidity, temperature and tray dictionary.
AMSUnit(h, t, trays) == [humidity |-> h, temperature |-> t, filament_trays |-> trays]

Units ==
  { AMSUnit(45, 25, <<>>),
    AMSUnit(20, 25, [i \in {0} |-> FilamentTray(RawTray("red", "PLA"))]) }

\* Raw AMS data dictionaries: humidity, temperature and the 'tray' list.
RawAMS(h, trays) == [humidity |-> h, temperature |-> 25, tray |-> trays]

RawAMSRecords == {RawAMS(45, <<>>), RawAMS(20, <<RawTray("red", "PLA")>>)}

RawAMSLists == UNION {[1..n -> RawAMSRecords] : n \in 0..MaxRecords}

\* The tray dictionaries process_trays may leave, starting from old.
Populations(old, trays) ==
  { [i \in {a[x] : x \in 1..Len(trays)} \cup kept |->
       IF i \in {a[x] : x \in 1..Len(trays)}
       THEN FilamentTray(trays[CHOOSE x \in 1..Len(trays) : a[x] = i])
       ELSE old[i]] :
    a \in IndexAssignments(Len(trays)), kept \in {{}, DOMAIN old} }

\* The units a raw AMS dictionary may become: IAMS(humidity, temperature,
\* tray=...).
UnitsFrom(r) == {AMSUnit(r.humidity, r.temperature, p) : p \in Populations(<<>>, r.tray)}

\* One unit for each dictionary of the list, in the list's order.
RECURSIVE UnitChoices(_)
UnitChoices(records) ==
  IF records = <<>> THEN {<<>>}
  ELSE {<<u>> \o rest : u \in UnitsFrom(Head(records)),
                        rest \in UnitChoices(Tail(records))}

IdAssignments(n) ==
  {a \in [1..n -> AmsIds] : \A x, y \in 1..n : a[x] = a[y] => x = y}

hub_getitem_lenient(d, ind) ==
  IF ind \in DOMAIN d THEN Return(d[ind]) ELSE Return(None)

\* The outcome of hub[ind] on the unit dictionary d.
hub_getitem_result(d, ind) ==
  IF ind \in DOMAIN d THEN Return(d[ind]) ELSE Raise("KeyError")

\* The operations IAMSHub declares that look a unit up by its id, and the
\* outcome of each.
HubLookups == {"__getitem__"}

hub_lookup_result(op, d, ind) ==
  CASE op = "__getitem__" -> hub_getitem_result(d, ind)

hub_getitem(ind) ==
  /\ UNCHANGED <<ams_hub, cameraVars, amsVars, sent, tray, job>>
  /\ event' = Call("hub.__getitem__", <<ind>>, ams_hub,
                   hub_getitem_result(ams_hub, ind))

hub_setitem(ind, item) ==
  /\ ams_hub' = Put(ams_hub, ind, item)
  /\ UNCHANGED <<cameraVars, amsVars, sent, tray, job>>
  /\ event' = Call("hub.__setitem__", <<ind, item>>, ams_hub, Return(None))

get_ams_hub ==
  /\ UNCHANGED <<ams_hub, cameraVars, amsVars, sent, tray, job>>
  /\ event' = Call("ams_hub", NoArgs, ams_hub, Return(ams_hub))

\* parse_list populates ams_hub from the list: every dictionary of the list
\* becomes a unit under an id of its own.  As for process_trays, the id a
\* dictionary is filed under and whether earlier units stay are left open.
parse_list(ams_dict) ==
  /\ \E a \in IdAssignments(Len(ams_dict)), keep \in BOOLEAN,
        built \in UnitChoices(ams_dict) :
       LET new == {a[x] : x \in 1..Len(ams_dict)}
           old == IF keep THEN DOMAIN ams_hub ELSE {}
       IN  ams_hub' = [i \in new \cup old |->
                         IF i \in new
                         THEN built[CHOOSE x \in 1..Len(ams_dict) : a[x] = i]
                         ELSE ams_hub[i]]
  /\ UNCHANGED <<cameraVars, amsVars, sent, tray, job>>
  /\ event' = Call("parse_list", <<ams_dict>>, ams_hub, Return(None))

HubNext ==
  \/ \E i \in AmsIds : hub_getitem(i)
  \/ \E i \in AmsIds, u \in Units : hub_setitem(i, u)
  \/ get_ams_hub
  \/ \E l \in RawAMSLists : parse_list(l)

(***************************************************************************)
(* IPrinter.gcode.  sent is what has been transmitted to the printer.      *)
(***************************************************************************)
ValidGcode == {"G28", "M104 S200"}
Gcodes == ValidGcode \cup {"G28 home!"}

is_valid_gcode(line) == line \in ValidGcode

\* Union[str, List[str]]
Str(s) == [tag |-> "str", s |-> s]
List(l) == [tag |-> "list", l |-> l]
GcodeInputs ==
  {Str(s) : s \in Gcodes}
  \cup {List(l) : l \in UNION {[1..n -> Gcodes] : n \in 0..MaxCommands}}

Lines(g) == IF g.tag = "str" THEN <<g.s>> ELSE g.l

RECURSIVE ValidPrefix(_)
ValidPrefix(l) ==
  IF l = <<>> \/ ~is_valid_gcode(Head(l)) THEN <<>>
  ELSE <<Head(l)>> \o ValidPrefix(Tail(l))

gcode_checks_while_sending(g, gcode_check) ==
  /\ Len(sent) + Len(Lines(g)) <= MaxSent
  /\ UNCHANGED <<cameraVars, amsVars, ams_hub, tray, job>>
  /\ IF gcode_check /\ \E x \in 1..Len(Lines(g)) : ~is_valid_gcode(Lines(g)[x])
     THEN /\ sent' = sent \o ValidPrefix(Lines(g))
          /\ event' = Call("gcode", <<g, gcode_check>>, sent, Raise("ValueError"))
     ELSE \E ok \in BOOLEAN :
          /\ sent' = IF ok THEN sent \o Lines(g) ELSE sent
          /\ event' = Call("gcode", <<g, gcode_check>>, sent, Return(ok))

gcode(g, gcode_check) ==
  /\ Len(sent) + Len(Lines(g)) <= MaxSent
  /\ UNCHANGED <<cameraVars, amsVars, ams_hub, tray, job>>
  /\ IF gcode_check /\ \E x \in 1..Len(Lines(g)) : ~is_valid_gcode(Lines(g)[x])
     THEN /\ UNCHANGED sent
          /\ event' = Call("gcode", <<g, gcode_check>>, sent, Raise("ValueError"))
     ELSE \E ok \in BOOLEAN :
          /\ sent' = IF ok THEN sent \o Lines(g) ELSE sent
          /\ event' = Call("gcode", <<g, gcode_check>>, sent, Return(ok))

(***************************************************************************)
(* IPrinter.start_print.  job is the print that was started last (None     *)
(* before the first), with the parameters it was started with.             *)
(***************************************************************************)
AmsMappings == {None, List(<<>>), List(<<0>>), List(<<1, 0>>)}

PrintJob(filename, plate_number, use_ams, ams_mapping, skip_objects, flow_calibration) ==
  [filename |-> filename, plate_number |-> plate_number, use_ams |-> use_ams,
   ams_mapping |-> ams_mapping, skip_objects |-> skip_objects,
   flow_calibration |-> flow_calibration]

start_print_no_default(filename, plate_number, use_ams, ams_mapping, skip_objects, flow_calibration) ==
  /\ UNCHANGED <<cameraVars, amsVars, ams_hub, tray, sent>>
  /\ \E ok \in BOOLEAN :
       /\ job' = IF ok
                 THEN PrintJob(filename, plate_number, use_ams, ams_mapping,
                               skip_objects, flow_calibration)
                 ELSE job
       /\ event' = Call("start_print",
                        <<filename, plate_number, use_ams, ams_mapping,
                          skip_objects, flow_calibration>>,
                        job, Return(ok))

\* ams_mapping defaults to [0]: None, the signature's placeholder, stands for
\* an omitted argument.
start_print(filename, plate_number, use_ams, ams_mapping, skip_objects, flow_calibration) ==
  /\ UNCHANGED <<cameraVars, amsVars, ams_hub, tray, sent>>
  /\ \E ok \in BOOLEAN :
       /\ job' = IF ok
                 THEN PrintJob(filename, plate_number, use_ams,
                               IF ams_mapping = None THEN List(<<0>>) ELSE ams_mapping,
                               skip_objects, flow_calibration)
                 ELSE job
       /\ event' = Call("start_print",
                        <<filename, plate_number, use_ams, ams_mapping,
                          skip_objects, flow_calibration>>,
                        job, Return(ok))

PrinterNext ==
  \/ \E g \in GcodeInputs, c \in BOOLEAN : gcode(g, c)
  \/ \E use_ams \in BOOLEAN, mapping \in AmsMappings :
       start_print("plate.3mf", 1, use_ams, mapping, None, TRUE)

(***************************************************************************)
(* The state after construction, and the specifications.  The camera, the   *)
(* AMS unit and the printer's command channel share no state, so each is   *)
(* specified on its own.                                                   *)
(***************************************************************************)
SampleHumidity == {45}
SampleTemperature == {25}

Init ==
  /\ worker = "NotStarted"
  /\ loops = 0
  /\ last_frame = None
  /\ filament_trays = <<>>
  /\ humidity \in SampleHumidity
  /\ temperature \in SampleTemperature
  /\ sent = <<>>
  /\ ams_hub = <<>>
  /\ tray = FilamentTray(BaseTray)
  /\ job = None
  /\ event = Call("__init__", NoArgs, None, Return(None))

SpecCamera == Init /\ [][CameraNext]_vars
SpecAMS == Init /\ [][AMSNext]_vars
SpecPrinter == Init /\ [][PrinterNext]_vars
SpecHub == Init /\ [][HubNext]_vars
SpecTray == Init /\ [][TrayNext]_vars

(***************************************************************************)
(* Properties.                                                             *)
(***************************************************************************)

\* C1: start() called when the camera is NotStarted or Stopped leaves it
\* Running with exactly one capture loop and returns True; called when it is
\* Running it returns False and leaves the camera as it was.  The worker is
\* Running only with exactly one capture loop.
C1_StartContract ==
  /\ worker = "Running" => loops = 1
  /\ event.op = "start" =>
       IF event.pre.worker \in {"NotStarted", "Stopped"}
       THEN /\ worker = "Running"
            /\ is_alive_value
            /\ loops = 1
            /\ last_frame = event.pre.last_frame
            /\ event.ret = Return(TRUE)
       ELSE /\ CameraState = event.pre
            /\ event.ret = Return(FALSE)

\* A restart: start() returned True on a camera that had run, received a frame
\* and been stopped.
C1_RestartAfterStop ==
  /\ event.op = "start"
  /\ event.pre.worker = "Stopped"
  /\ event.pre.last_frame # None
  /\ event.ret = Return(TRUE)

\* C3: at every index that holds no tray get_filament_tray returns None and
\* ams[index] raises KeyError; at every index that holds a tray both return
\* that tray.
C3_DualAccess ==
  /\ \A i \in TrayIndices :
       IF i \in DOMAIN filament_trays
       THEN /\ get_filament_tray_result(filament_trays, i) = Return(filament_trays[i])
            /\ getitem_result(filament_trays, i) = Return(filament_trays[i])
       ELSE /\ get_filament_tray_result(filament_trays, i) = Return(None)
            /\ getitem_result(filament_trays, i) = Raise("KeyError")
  /\ event.op = "get_filament_tray" =>
       event.ret = IF event.args[1] \in DOMAIN filament_trays
                   THEN Return(filament_trays[event.args[1]])
                   ELSE Return(None)
  /\ event.op = "__getitem__" =>
       event.ret = IF event.args[1] \in DOMAIN filament_trays
                   THEN Return(filament_trays[event.args[1]])
                   ELSE Raise("KeyError")

\* ams[index] raised KeyError at an empty index of a unit that holds a tray
\* elsewhere, where get_filament_tray(index) returns None.
C3_MissingIndexRead ==
  /\ event.op = "__getitem__"
  /\ event.ret = Raise("KeyError")
  /\ DOMAIN filament_trays # {}
  /\ get_filament_tray_result(filament_trays, event.args[1]) = Return(None)

\* C4: after set_filament_tray(t, i) or ams[i] = t, which raise nothing,
\* get_filament_tray(i) and ams[i] return t, whether or not i held a tray.
C4_UpsertRoundTrip ==
  event.op \in {"set_filament_tray", "__setitem__"} =>
    LET t == IF event.op = "set_filament_tray" THEN event.args[1] ELSE event.args[2]
        i == IF event.op = "set_filament_tray" THEN event.args[2] ELSE event.args[1]
    IN  /\ event.ret = Return(None)
        /\ get_filament_tray_result(filament_trays, i) = Return(t)
        /\ getitem_result(filament_trays, i) = Return(t)

\* set_filament_tray replaced a different tray.
C4_Overwrite ==
  /\ event.op = "set_filament_tray"
  /\ event.args[2] \in DOMAIN event.pre
  /\ event.pre[event.args[2]] # event.args[1]

\* Decoding of base64 text, to state what get_frame_as_base64 returns.
B64Index(c) == CHOOSE i \in 0..63 : B64Alphabet[i + 1] = c

RECURSIVE b64decode(_)
b64decode(cs) ==
  IF cs = <<>> THEN <<>>
  ELSE
    LET a == B64Index(cs[1])
        b == B64Index(cs[2])
    IN  IF cs[3] = "=" THEN << a * 4 + b \div 16 >>
        ELSE IF cs[4] = "="
        THEN << a * 4 + b \div 16, (b % 16) * 16 + B64Index(cs[3]) \div 4 >>
        ELSE << a * 4 + b \div 16, (b % 16) * 16 + B64Index(cs[3]) \div 4,
                (B64Index(cs[3]) % 4) * 64 + B64Index(cs[4]) >>
             \o b64decode(SubSeq(cs, 5, Len(cs)))

C10_StopIdempotent ==
  /\ is_alive_value <=> loops > 0
  /\ event.op = "is_alive" => event.ret = Return(loops > 0)
  /\ event.op = "stop" =>
       /\ ~is_alive_value
       /\ event.ret = Return(None)
       /\ event.pre.worker = "Stopped" => CameraState = event.pre

\* stop() was called on a camera that had already been stopped.
C10_StopWhenStopped ==
  /\ event.op = "stop"
  /\ event.pre.worker = "Stopped"
  /\ event.pre.last_frame # None

\* C11 as stated: at every id that is not in the hub, hub[id] raises KeyError
\* and some lookup the hub declares returns None instead of raising.
C11_StrictAndLenient ==
  \A ind \in AmsIds \ DOMAIN ams_hub :
    /\ hub_getitem_result(ams_hub, ind) = Raise("KeyError")
    /\ \E op \in HubLookups : hub_lookup_result(op, ams_hub, ind) = Return(None)

\* C11 (amended): hub[id] raises KeyError at every id that is not in the hub
\* and returns the unit at every id that is; every lookup by id that the hub
\* declares raises KeyError at a missing id (there is no lenient one), and
\* the ams_hub property returns the whole dictionary.
C11_HubStrictOnly ==
  /\ \A ind \in AmsIds, op \in HubLookups :
       hub_lookup_result(op, ams_hub, ind) =
         IF ind \in DOMAIN ams_hub THEN Return(ams_hub[ind]) ELSE Raise("KeyError")
  /\ event.op = "hub.__getitem__" =>
       event.ret = IF event.args[1] \in DOMAIN ams_hub
                   THEN Return(ams_hub[event.args[1]])
                   ELSE Raise("KeyError")
  /\ event.op = "ams_hub" => event.ret = Return(ams_hub)

\* hub[id] raised KeyError at a missing id of a hub that holds a unit
\* elsewhere.
C11_MissingUnitRead ==
  /\ event.op = "hub.__getitem__"
  /\ event.ret = Raise("KeyError")
  /\ DOMAIN ams_hub # {}

\* C13: a print started with ams_mapping omitted and use_ams true has the AMS
\* mapping [0]; a print started with a mapping supplied has that mapping,
\* the empty one included.
C13_AmsMappingDefault ==
  event.op = "start_print" /\ event.ret = Return(TRUE) =>
    /\ job # None
    /\ event.args[4] = None /\ event.args[3] => job.ams_mapping = List(<<0>>)
    /\ event.args[4] # None => job.ams_mapping = event.args[4]

\* A print was started with use_ams true and no mapping, after one that had
\* been given a mapping of its own.
C13_OmittedMapping ==
  /\ event.op = "start_print"
  /\ event.ret = Return(TRUE)
  /\ event.args[3]
  /\ event.args[4] = None
  /\ event.pre # None
  /\ event.pre.ams_mapping = List(<<1, 0>>)

C15_UpsertFrame ==
  [][event'.op \in {"set_filament_tray", "__setitem__"} =>
       LET i == IF event'.op = "set_filament_tray"
                THEN event'.args[2] ELSE event'.args[1]
       IN  /\ humidity' = humidity
           /\ temperature' = temperature
           /\ \A j \in TrayIndices \ {i} :
                /\ get_filament_tray_result(filament_trays', j)
                     = get_filament_tray_result(filament_trays, j)
                /\ getitem_result(filament_trays', j)
                     = getitem_result(filament_trays, j)]_vars

\* A tray was set at one index of a unit that held, and still holds, another
\* tray at another index.
C15_OtherSlotKept ==
  /\ event.op \in {"set_filament_tray", "__setitem__"}
  /\ \E j \in DOMAIN event.pre :
       /\ j # (IF event.op = "set_filament_tray" THEN event.args[2] ELSE event.args[1])
       /\ j \in DOMAIN filament_trays
       /\ filament_trays[j] = event.pre[j]
       /\ filament_trays[j] #
            (IF event.op = "set_filament_tray" THEN event.args[1] ELSE event.args[2])
=============================================================================
